---- MODULE Spec2Model ----
(***************************************************************************)
(* Model of the detection clients of TypeFly/controller:                   *)
(*   YoloClient      (yolo_client.py,      HTTP)                           *)
(*   YoloGRPCClient  (yolo_grpc_client.py, gRPC)                           *)
(* One client object is modelled; which of the two classes it is, whether  *)
(* the vision service is local and whether a SharedFrame is attached are   *)
(* fixed at construction.  detect() is a coroutine: it can be suspended    *)
(* only at an await, so every action below is one run of a coroutine from  *)
(* one suspension point to the next.                                       *)
(***************************************************************************)
EXTENDS Integers, Sequences, FiniteSets

\* Number of detect() invocations explored.
MaxCalls == 3

\* Value of json_results.get('image_id', -1) when the key is absent.
NoId == -1

Calls == 1..MaxCalls

\* image_id values the service may put in a response: every id that can be
\* dispatched (0..MaxCalls-1), one id that never is (MaxCalls), and NoId for
\* a response without the key.
ResultIds == NoId..MaxCalls

Clients == {"http", "grpc"}

VARIABLES
    client,           \* which class the object is
    vision_service_ip,\* "localhost" or "remote"
    shared_frame,     \* [attached : BOOLEAN, content : <<>> or <<pair>>]
    is_async_inited,  \* YoloGRPCClient.is_async_inited
    frame_id,         \* self.frame_id
    frame_queue,      \* self.frame_queue, front first
    frame_id_lock,    \* 0 when free, else the call that holds it
    ncalls,           \* number of detect() invocations so far
    pc,               \* position of each invocation
    reqId,            \* image_id placed in the request of each invocation
    fault,            \* failure injected into each invocation, or "none"
    outcome,          \* "running", "return", or the exception raised
    dispatched,       \* history: envelopes in the order they were enqueued
    arrivals,         \* history: results reconciled, with the queue ids before
    published,        \* history: every SharedFrame.set, in order
    purged            \* history: envelopes popped by the discard loop

vars == <<client, vision_service_ip, shared_frame, is_async_inited, frame_id,
          frame_queue, frame_id_lock, ncalls, pc, reqId, fault, outcome,
          dispatched, arrivals, published, purged>>

config == <<client, vision_service_ip>>
history == <<dispatched, arrivals, published, purged>>

----------------------------------------------------------------------------
\* Helpers

is_local_service == vision_service_ip = "localhost"

\* A frame is identified by the invocation it was passed to.
FrameOf(c) == c

\* Queue element of the asynchronous path: the tuple (frame_id, frame).
Envelope(id, frame) == [id |-> id, frame |-> frame]

\* Queue element of detect_local: the bare frame (no id).
BareFrame(frame) == [id |-> NoId, frame |-> frame]

\* Variant: the element is inserted at the front.
Put_AtFront(q, e) == <<e>> \o q

\* queue.Queue.put
Put(q, e) == Append(q, e)

Ids(q) == {q[i].id : i \in 1..Len(q)}

IdSeq(q) == [i \in 1..Len(q) |-> q[i].id]

\* SharedFrame.set(frame, result): unconditional overwrite.
SharedFrameSet(sf, frame, result) ==
    [sf EXCEPT !.content = <<[frame |-> frame, result |-> result]>>]

\* Variant: the increment is lost.
NextFrameId_NoIncrement(fid) == fid

\* self.frame_id += 1
NextFrameId(fid) == fid + 1

----------------------------------------------------------------------------
Init ==
    /\ client \in Clients
    /\ vision_service_ip \in {"localhost", "remote"}
    /\ shared_frame \in {[attached |-> a, content |-> <<>>] : a \in BOOLEAN}
    /\ is_async_inited = FALSE
    /\ frame_id = 0
    /\ frame_queue = <<>>
    /\ frame_id_lock = 0
    /\ ncalls = 0
    /\ pc = [c \in Calls |-> "idle"]
    /\ reqId = [c \in Calls |-> NoId]
    /\ fault = [c \in Calls |-> "none"]
    /\ outcome = [c \in Calls |-> "running"]
    /\ dispatched = <<>>
    /\ arrivals = <<>>
    /\ published = <<>>
    /\ purged = {}

----------------------------------------------------------------------------
\* Synchronous path: detect_local.  The call blocks the event loop, so the
\* whole body is one step.  net is what the service does with the request.

LocalNets == {"ok", "transport", "decode"}

\* YoloClient.detect_local: every exception is caught and printed.
DetectLocalHTTP(q, fid, sf, c, hasImage, net, r) ==
    IF ~hasImage
    THEN [queue |-> q, frame_id |-> fid, sf |-> sf, pub |-> <<>>,
          exc |-> "return"]
    ELSE LET q1 == Put(q, BareFrame(FrameOf(c)))
             res == [image_id |-> r, call |-> c]
         IN IF net # "ok"
            THEN [queue |-> q1, frame_id |-> fid, sf |-> sf, pub |-> <<>>,
                  exc |-> "return"]
            ELSE IF sf.attached
                 THEN [queue |-> Tail(q1), frame_id |-> NextFrameId(fid),
                       sf |-> SharedFrameSet(sf, Head(q1).frame, res),
                       pub |-> <<[frame |-> Head(q1).frame, result |-> res]>>,
                       exc |-> "return"]
                 ELSE [queue |-> q1, frame_id |-> NextFrameId(fid),
                       sf |-> sf, pub |-> <<>>, exc |-> "return"]

\* YoloGRPCClient.detect_local: no try block, exceptions reach the caller.
DetectLocalGRPC(q, fid, sf, c, hasImage, net, r) ==
    IF ~hasImage
    THEN [queue |-> q, frame_id |-> fid, sf |-> sf, pub |-> <<>>,
          exc |-> "return"]
    ELSE LET q1 == Put(q, BareFrame(FrameOf(c)))
             res == [image_id |-> r, call |-> c]
         IN IF net = "transport"
            THEN [queue |-> q1, frame_id |-> fid, sf |-> sf, pub |-> <<>>,
                  exc |-> "RpcError"]
            ELSE IF net = "decode"
            THEN [queue |-> q1, frame_id |-> fid, sf |-> sf, pub |-> <<>>,
                  exc |-> "JSONDecodeError"]
            ELSE IF sf.attached /\ q1 # <<>>
                 THEN [queue |-> Tail(q1), frame_id |-> fid,
                       sf |-> SharedFrameSet(sf, Head(q1).frame, res),
                       pub |-> <<[frame |-> Head(q1).frame, result |-> res]>>,
                       exc |-> "return"]
                 ELSE [queue |-> q1, frame_id |-> fid, sf |-> sf,
                       pub |-> <<>>, exc |-> "return"]

detect_local(q, fid, sf, c, hasImage, net, r) ==
    IF client = "http"
    THEN DetectLocalHTTP(q, fid, sf, c, hasImage, net, r)
    ELSE DetectLocalGRPC(q, fid, sf, c, hasImage, net, r)

\* detect() when is_local_service(): delegates to detect_local and returns.
DetectLocal(hasImage, net, r) ==
    /\ is_local_service
    /\ ncalls < MaxCalls
    /\ LET c == ncalls + 1
           d == detect_local(frame_queue, frame_id, shared_frame, c,
                             hasImage, net, r)
       IN /\ ncalls' = c
          /\ is_async_inited' = (is_async_inited \/ client = "grpc")
          /\ frame_queue' = d.queue
          /\ frame_id' = d.frame_id
          /\ shared_frame' = d.sf
          /\ published' = published \o d.pub
          /\ pc' = [pc EXCEPT ![c] = "done"]
          /\ fault' = [fault EXCEPT ![c] = IF hasImage /\ net # "ok"
                                           THEN net ELSE "none"]
          /\ outcome' = [outcome EXCEPT ![c] = d.exc]
    /\ UNCHANGED <<config, frame_id_lock, reqId, dispatched, arrivals, purged>>

----------------------------------------------------------------------------
\* Asynchronous path: detect() with a remote service.

\* Coroutines suspended in asyncio.Lock.acquire.  Invocations are numbered
\* in call order, so the longest waiter is the least one.
Waiters == {c \in Calls : pc[c] = "acquire"}

\* asyncio.Lock.acquire returns at once when the lock is free and nobody
\* waits for it, and suspends the coroutine otherwise.
CanAcquire(lock, waiters) == lock = 0 /\ waiters = {}

\* From the call to `async with self.frame_id_lock`: the image check, the
\* encoding, and the attempt to take the lock.
DetectStart(hasImage) ==
    /\ ~is_local_service
    /\ ncalls < MaxCalls
    /\ LET c == ncalls + 1
       IN /\ ncalls' = c
          /\ is_async_inited' = (is_async_inited \/ client = "grpc")
          /\ IF ~hasImage
             THEN /\ pc' = [pc EXCEPT ![c] = "done"]
                  /\ outcome' = [outcome EXCEPT ![c] = "return"]
                  /\ UNCHANGED frame_id_lock
             ELSE /\ UNCHANGED outcome
                  /\ IF CanAcquire(frame_id_lock, Waiters)
                     THEN /\ frame_id_lock' = c
                          /\ pc' = [pc EXCEPT ![c] = "critical"]
                     ELSE /\ UNCHANGED frame_id_lock
                          /\ pc' = [pc EXCEPT ![c] = "acquire"]
    /\ UNCHANGED <<config, shared_frame, frame_id, frame_queue, reqId, fault,
                   history>>

\* asyncio.Lock.release wakes the first waiter, which then owns the lock.
AcquireLock(c) ==
    /\ pc[c] = "acquire"
    /\ CanAcquire(frame_id_lock, {d \in Waiters : d < c})
    /\ frame_id_lock' = c
    /\ pc' = [pc EXCEPT ![c] = "critical"]
    /\ UNCHANGED <<config, shared_frame, is_async_inited, frame_id,
                   frame_queue, ncalls, reqId, fault, outcome, history>>

\* Variant: the id is read again after the increment, outside the lock.
RequestId_AfterIncrement(fid) == fid + 1

\* The id written into the request: config['image_id'] / image_id.
RequestId(fid) == fid

\* Variant: the lock is kept until the response has been handled.
ReleaseLock_AfterResponse(c) == c

\* Leaving `async with self.frame_id_lock`, before the request is sent: the
\* lock is free again.
ReleaseLock(c) == 0

\* Body of `async with self.frame_id_lock` (no await inside), then release;
\* the coroutine is suspended next in the network call.
CriticalSection(c) ==
    /\ pc[c] = "critical"
    /\ frame_id_lock = c
    /\ frame_queue' = Put(frame_queue, Envelope(frame_id, FrameOf(c)))
    /\ reqId' = [reqId EXCEPT ![c] = RequestId(frame_id)]
    /\ frame_id' = NextFrameId(frame_id)
    /\ frame_id_lock' = ReleaseLock(c)
    /\ dispatched' = Append(dispatched,
                            [id |-> frame_id, frame |-> FrameOf(c), call |-> c])
    /\ pc' = [pc EXCEPT ![c] = "await"]
    /\ UNCHANGED <<config, shared_frame, is_async_inited, ncalls, fault,
                   outcome, arrivals, published, purged>>

----------------------------------------------------------------------------
\* Reconciliation of a decoded result against the queue.

\* Variant: the loop also pops the envelope whose id equals rid.
RECURSIVE DiscardOld_Inclusive(_, _)
DiscardOld_Inclusive(q, rid) ==
    IF q # <<>> /\ Head(q).id <= rid
    THEN LET rest == DiscardOld_Inclusive(Tail(q), rid)
         IN [popped |-> {Head(q)} \cup rest.popped, queue |-> rest.queue]
    ELSE [popped |-> {}, queue |-> q]

\* Variant: an `if` in place of the `while`, one envelope popped at most.
DiscardOld_Once(q, rid) ==
    IF q # <<>> /\ Head(q).id < rid
    THEN [popped |-> {Head(q)}, queue |-> Tail(q)]
    ELSE [popped |-> {}, queue |-> q]

\* `while front.id < rid: self.frame_queue.get()` run to its end: the
\* envelopes popped and the queue that is left.
RECURSIVE DiscardOld(_, _)
DiscardOld(q, rid) ==
    IF q # <<>> /\ Head(q).id < rid
    THEN LET rest == DiscardOld(Tail(q), rid)
         IN [popped |-> {Head(q)} \cup rest.popped, queue |-> rest.queue]
    ELSE [popped |-> {}, queue |-> q]

\* Variant: the emptiness test is missing.
QueueEmptyReturn_Never(q) == FALSE

\* `if self.frame_queue.empty(): return`
QueueEmptyReturn(q) == q = <<>>

\* Variant: the stale-result test is missing.
StaleResult_Never(q, rid) == FALSE

\* `if front.id > rid: return` ("discard old results")
StaleResult(q, rid) == Head(q).id > rid

\* Variant: the front is read for publication but not removed.
Publish_NoPop(q, sf, res) ==
    IF sf.attached
    THEN [queue |-> q, popped |-> {},
          sf |-> SharedFrameSet(sf, Head(q).frame, res),
          pub |-> <<[frame |-> Head(q).frame, result |-> res]>>,
          exc |-> "return"]
    ELSE [queue |-> q, popped |-> {}, sf |-> sf, pub |-> <<>>,
          exc |-> "return"]

\* `if self.shared_frame is not None: set(self.frame_queue.get()[1], ...)`
Publish(q, sf, res) ==
    IF sf.attached
    THEN [queue |-> Tail(q), popped |-> {},
          sf |-> SharedFrameSet(sf, Head(q).frame, res),
          pub |-> <<[frame |-> Head(q).frame, result |-> res]>>,
          exc |-> "return"]
    ELSE [queue |-> q, popped |-> {}, sf |-> sf, pub |-> <<>>,
          exc |-> "return"]

Discarded(q, popped, sf, exc) ==
    [queue |-> q, popped |-> popped, sf |-> sf, pub |-> <<>>, exc |-> exc]

\* YoloClient.detect, lines 211-221.  A missing key reads as -1; the loop
\* and the stale check index queue[0] without testing for emptiness.
ReconcileHTTP(q, sf, res) ==
    IF QueueEmptyReturn(q)
    THEN Discarded(q, {}, sf, "return")
    ELSE LET d == DiscardOld(q, res.image_id)
         IN IF d.queue = <<>>
            THEN Discarded(d.queue, d.popped, sf, "IndexError")
            ELSE IF StaleResult(d.queue, res.image_id)
            THEN Discarded(d.queue, d.popped, sf, "return")
            ELSE [Publish(d.queue, sf, res) EXCEPT !.popped = d.popped]

\* YoloGRPCClient.detect, lines 96-108.  json_results['image_id'] raises
\* KeyError when the key is missing; emptiness is tested before each read
\* of the front.
ReconcileGRPC(q, sf, res) ==
    IF QueueEmptyReturn(q)
    THEN Discarded(q, {}, sf, "return")
    ELSE IF res.image_id = NoId
    THEN Discarded(q, {}, sf, "KeyError")
    ELSE LET d == DiscardOld(q, res.image_id)
         IN IF d.queue = <<>> \/ StaleResult(d.queue, res.image_id)
            THEN Discarded(d.queue, d.popped, sf, "return")
            ELSE [Publish(d.queue, sf, res) EXCEPT !.popped = d.popped]

Reconcile(q, sf, res) ==
    IF client = "http" THEN ReconcileHTTP(q, sf, res)
                       ELSE ReconcileGRPC(q, sf, res)

\* The response of call c arrives, decodes, and is reconciled; r is the
\* image_id the service put in it.
ReceiveResult(c, r) ==
    /\ pc[c] = "await"
    /\ LET res == [image_id |-> r, call |-> c]
           d == Reconcile(frame_queue, shared_frame, res)
       IN /\ frame_queue' = d.queue
          /\ shared_frame' = d.sf
          /\ published' = published \o d.pub
          /\ purged' = purged \cup d.popped
          /\ outcome' = [outcome EXCEPT ![c] = d.exc]
    /\ arrivals' = Append(arrivals, [call |-> c, image_id |-> r,
                                     pre |-> IdSeq(frame_queue)])
    /\ pc' = [pc EXCEPT ![c] = "done"]
    /\ UNCHANGED <<config, is_async_inited, frame_id, frame_id_lock, ncalls,
                   reqId, fault, dispatched>>

\* Failures of the network call or of the decoding of its response.
Faults ==
    IF client = "http" THEN {"transport", "timeout", "decode"}
                       ELSE {"transport", "decode"}

\* What the caller of detect() gets for each failure.
\*  http: get_aiohttp_session_response swallows the exception before its
\*        yield, so entering the context raises RuntimeError;
\*        JSONDecodeError is caught and detect returns.
\*  grpc: nothing is caught.
FailureOutcome(f) ==
    IF client = "http"
    THEN CASE f = "transport" -> "RuntimeError"
           [] f = "timeout"   -> "RuntimeError"
           [] f = "decode"    -> "return"
    ELSE CASE f = "transport" -> "AioRpcError"
           [] f = "decode"    -> "JSONDecodeError"

\* Variant: the failure path removes the envelope of the failed call.
QueueAfterFailure_Remove(q, c) == SelectSeq(q, LAMBDA e : e.frame # FrameOf(c))

\* Queue after a failed call: no handler touches it.
QueueAfterFailure(q, c) == q

ReceiveFailure(c, f) ==
    /\ pc[c] = "await"
    /\ f \in Faults
    /\ fault' = [fault EXCEPT ![c] = f]
    /\ outcome' = [outcome EXCEPT ![c] = FailureOutcome(f)]
    /\ frame_queue' = QueueAfterFailure(frame_queue, c)
    /\ pc' = [pc EXCEPT ![c] = "done"]
    /\ UNCHANGED <<config, shared_frame, is_async_inited, frame_id,
                   frame_id_lock, ncalls, reqId, history>>

----------------------------------------------------------------------------
Next ==
    \/ \E hasImage \in BOOLEAN, net \in LocalNets, r \in ResultIds :
          DetectLocal(hasImage, net, r)
    \/ \E hasImage \in BOOLEAN : DetectStart(hasImage)
    \/ \E c \in Calls : AcquireLock(c)
    \/ \E c \in Calls : CriticalSection(c)
    \/ \E c \in Calls, r \in ResultIds : ReceiveResult(c, r)
    \/ \E c \in Calls, f \in {"transport", "timeout", "decode"} :
          ReceiveFailure(c, f)

Spec == Init /\ [][Next]_vars

TypeOK ==
    /\ client \in Clients
    /\ frame_id \in 0..MaxCalls
    /\ frame_id_lock \in 0..MaxCalls
    /\ ncalls \in 0..MaxCalls
    /\ Len(frame_queue) <= MaxCalls

----------------------------------------------------------------------------
\* The reconciliation statement by statement.  SpecSteps runs lines 211-221
\* (95-108 in the gRPC client) one statement at a time; the event loop runs
\* another coroutine only when the running one is suspended at an await.

\* Positions inside the reconciliation: the emptiness test, the discard
\* loop, the stale test, the pop and set.
RcPositions == {"rc_empty", "rc_loop", "rc_stale", "rc_pub"}

Reconciling == {c \in Calls : pc[c] \in RcPositions}

\* Variant: the discard loop awaits in every iteration.
Suspends_InLoop(pos) == pos = "rc_loop"

\* Whether the coroutine can be suspended at a position of the
\* reconciliation: there is no await between the decoding and the return.
Suspends(pos) == FALSE

\* The event loop is free to run another coroutine.
LoopFree == \A c \in Reconciling : Suspends(pc[c])

\* The result a reconciling call holds: the last one recorded for it.
ResultOf(c) ==
    LET k == CHOOSE i \in DOMAIN arrivals : arrivals[i].call = c
    IN [image_id |-> arrivals[k].image_id, call |-> c]

\* The response of call c arrives and decodes; reconciliation starts.
BeginReconcile(c, r) ==
    /\ pc[c] = "await"
    /\ arrivals' = Append(arrivals, [call |-> c, image_id |-> r,
                                     pre |-> IdSeq(frame_queue)])
    /\ pc' = [pc EXCEPT ![c] = "rc_empty"]
    /\ UNCHANGED <<config, shared_frame, is_async_inited, frame_id,
                   frame_queue, frame_id_lock, ncalls, reqId, fault, outcome,
                   dispatched, published, purged>>

\* Where one statement of the reconciliation leads: the next position or
\* "done", the queue, the envelope popped by the loop, the slot, the pair
\* published and the outcome.
StepTo(pos, q, popped, sf, pub, exc) ==
    [pos |-> pos, queue |-> q, popped |-> popped, sf |-> sf, pub |-> pub,
     exc |-> exc]

StatementHTTP(pos, q, sf, res) ==
    CASE pos = "rc_empty" ->
            IF QueueEmptyReturn(q)
            THEN StepTo("done", q, {}, sf, <<>>, "return")
            ELSE StepTo("rc_loop", q, {}, sf, <<>>, "running")
      [] pos = "rc_loop" ->
            IF q = <<>>
            THEN StepTo("done", q, {}, sf, <<>>, "IndexError")
            ELSE IF Head(q).id < res.image_id
            THEN StepTo("rc_loop", Tail(q), {Head(q)}, sf, <<>>, "running")
            ELSE StepTo("rc_stale", q, {}, sf, <<>>, "running")
      [] pos = "rc_stale" ->
            IF q = <<>>
            THEN StepTo("done", q, {}, sf, <<>>, "IndexError")
            ELSE IF StaleResult(q, res.image_id)
            THEN StepTo("done", q, {}, sf, <<>>, "return")
            ELSE StepTo("rc_pub", q, {}, sf, <<>>, "running")
      [] pos = "rc_pub" ->
            LET d == Publish(q, sf, res)
            IN StepTo("done", d.queue, {}, d.sf, d.pub, d.exc)

StatementGRPC(pos, q, sf, res) ==
    CASE pos = "rc_empty" ->
            IF QueueEmptyReturn(q)
            THEN StepTo("done", q, {}, sf, <<>>, "return")
            ELSE StepTo("rc_loop", q, {}, sf, <<>>, "running")
      [] pos = "rc_loop" ->
            IF q = <<>>
            THEN StepTo("rc_stale", q, {}, sf, <<>>, "running")
            ELSE IF res.image_id = NoId
            THEN StepTo("done", q, {}, sf, <<>>, "KeyError")
            ELSE IF Head(q).id < res.image_id
            THEN StepTo("rc_loop", Tail(q), {Head(q)}, sf, <<>>, "running")
            ELSE StepTo("rc_stale", q, {}, sf, <<>>, "running")
      [] pos = "rc_stale" ->
            IF q = <<>> \/ StaleResult(q, res.image_id)
            THEN StepTo("done", q, {}, sf, <<>>, "return")
            ELSE StepTo("rc_pub", q, {}, sf, <<>>, "running")
      [] pos = "rc_pub" ->
            LET d == Publish(q, sf, res)
            IN StepTo("done", d.queue, {}, d.sf, d.pub, d.exc)

Statement(pos, q, sf, res) ==
    IF client = "http" THEN StatementHTTP(pos, q, sf, res)
                       ELSE StatementGRPC(pos, q, sf, res)

\* Call c runs the statement it stands at.  frame_queue.get() of the pop
\* and set blocks on an empty queue.
ReconcileStep(c) ==
    /\ pc[c] \in RcPositions
    /\ pc[c] = "rc_pub" /\ shared_frame.attached => frame_queue # <<>>
    /\ LET d == Statement(pc[c], frame_queue, shared_frame, ResultOf(c))
       IN /\ pc' = [pc EXCEPT ![c] = d.pos]
          /\ frame_queue' = d.queue
          /\ purged' = purged \cup d.popped
          /\ shared_frame' = d.sf
          /\ published' = published \o d.pub
          /\ outcome' = [outcome EXCEPT ![c] = d.exc]
    /\ UNCHANGED <<config, is_async_inited, frame_id, frame_id_lock, ncalls,
                   reqId, fault, dispatched, arrivals>>

InitSteps == Init /\ ~is_local_service

NextSteps ==
    \/ LoopFree /\ \E hasImage \in BOOLEAN : DetectStart(hasImage)
    \/ LoopFree /\ \E c \in Calls : AcquireLock(c)
    \/ LoopFree /\ \E c \in Calls : CriticalSection(c)
    \/ LoopFree /\ \E c \in Calls, f \in {"transport", "timeout", "decode"} :
                      ReceiveFailure(c, f)
    \/ LoopFree /\ \E c \in Calls, r \in ResultIds : BeginReconcile(c, r)
    \/ \E c \in Calls : ReconcileStep(c)

SpecSteps == InitSteps /\ [][NextSteps]_vars

----------------------------------------------------------------------------
\* Vocabulary of the properties

Attached == shared_frame.attached

Raised(c) == outcome[c] \notin {"running", "return"}

PurgedIds == {e.id : e \in purged}

\* The ids in a sequence of ids.
Ids2(ids) == {ids[i] : i \in DOMAIN ids}

\* The step reconciles a result; Arrived is that result.
ArrivalStep == Len(arrivals') = Len(arrivals) + 1
Arrived == arrivals'[Len(arrivals')]

\* The frame enqueued with id i.
FramesOf(i) == {dispatched[k].frame : k \in {j \in DOMAIN dispatched :
                                                dispatched[j].id = i}}

----------------------------------------------------------------------------
\* C1: on the asynchronous path the ids assigned are exactly 0..N-1 without
\* gap or repeat, the k-th call through the critical section (counting from
\* 0) gets id k, and the counter equals the number of ids handed out.
C1_SequentialIds ==
    ~is_local_service =>
        /\ Len(dispatched) = frame_id
        /\ \A k \in DOMAIN dispatched :
              /\ dispatched[k].id = k - 1
              /\ reqId[dispatched[k].call] = k - 1
        /\ \A c \in Calls : pc[c] \in {"idle", "acquire", "critical"}
                               => reqId[c] = NoId

\* Every call has been through the critical section while the others were
\* still in flight.
C1_Witness ==
    /\ ~is_local_service
    /\ Len(dispatched) = MaxCalls
    /\ \A c \in Calls : pc[c] = "await"

\* C2: on the asynchronous path the queue is in strictly ascending id order
\* from front to back, and is a part of the enqueue history in its order.
C2_QueueAscending ==
    ~is_local_service =>
        /\ \A i, j \in DOMAIN frame_queue :
              i < j => frame_queue[i].id < frame_queue[j].id
        /\ \A i \in DOMAIN frame_queue :
              /\ frame_queue[i].id + 1 \in DOMAIN dispatched
              /\ dispatched[frame_queue[i].id + 1].frame = frame_queue[i].frame

\* Two envelopes queued after a result has been reconciled and a call has
\* failed.
C2_Witness ==
    /\ ~is_local_service
    /\ Len(frame_queue) >= 2
    /\ arrivals # <<>>
    /\ \E c \in Calls : fault[c] # "none"

\* C3: every pair published on the asynchronous path joins a result with
\* the frame that was enqueued under the result's image_id, and the slot
\* holds the last pair published.
C3_PublishedPairMatches ==
    ~is_local_service =>
        /\ \A k \in DOMAIN published :
              published[k].frame \in FramesOf(published[k].result.image_id)
        /\ shared_frame.content =
              IF published = <<>> THEN <<>>
              ELSE <<published[Len(published)]>>

\* Two pairs published although a result arrived on a call that had sent
\* another id, and results arrived out of id order.
C3_Witness ==
    /\ ~is_local_service
    /\ Len(published) >= 2
    /\ \E k \in DOMAIN arrivals :
          arrivals[k].image_id # reqId[arrivals[k].call]
    /\ \E i, j \in DOMAIN arrivals :
          i < j /\ arrivals[i].image_id > arrivals[j].image_id

\* The results reconciled so far are those for ids 0, 1, 2, ... in that
\* order.
InOrderArrivals ==
    /\ arrivals # <<>>
    /\ \A k \in DOMAIN arrivals : arrivals[k].image_id = k - 1

\* C4: with a SharedFrame attached, when the results for the dispatched ids
\* arrive in dispatch order each one is matched with its own frame and
\* nothing is purged; once all N have arrived the slot holds the pair of
\* id N-1 and the queue is empty.
C4_InOrderAllMatch ==
    (~is_local_service /\ Attached /\ InOrderArrivals) =>
        /\ Len(published) = Len(arrivals)
        /\ purged = {}
        /\ \A k \in DOMAIN published :
              /\ published[k].result.image_id = k - 1
              /\ published[k].frame = dispatched[k].frame
        /\ Len(arrivals) = frame_id =>
              /\ frame_queue = <<>>
              /\ shared_frame.content =
                    <<[frame |-> dispatched[frame_id].frame,
                       result |-> [image_id |-> frame_id - 1,
                                   call |-> arrivals[frame_id].call]]>>

C4_Witness ==
    /\ ~is_local_service
    /\ Attached
    /\ InOrderArrivals
    /\ frame_id = MaxCalls
    /\ Len(arrivals) = MaxCalls

\* C5: with a SharedFrame attached, a result with id R that finds envelope
\* R queued behind older envelopes makes every envelope with id < R leave
\* the queue unpublished and publishes envelope R's frame with that result;
\* a result arriving for an id that was purged publishes nothing and raises
\* nothing.
C5_PurgeThenMatch ==
    [][ArrivalStep =>
         LET R == Arrived.image_id
             c == Arrived.call
             older == {frame_queue[i] : i \in {j \in DOMAIN frame_queue :
                                                  frame_queue[j].id < R}}
         IN /\ (Attached /\ R \in Ids(frame_queue) /\ older # {}) =>
                  /\ purged' = purged \cup older
                  /\ frame_queue' = SelectSeq(frame_queue,
                                              LAMBDA e : e.id > R)
                  /\ \E f \in FramesOf(R) :
                        published' = Append(published,
                            [frame |-> f,
                             result |-> [image_id |-> R, call |-> c]])
                  /\ shared_frame'.content = <<published'[Len(published')]>>
                  /\ outcome'[c] = "return"
            /\ R \in PurgedIds =>
                  /\ published' = published
                  /\ shared_frame' = shared_frame
                  /\ outcome'[c] = "return"
       ]_vars

\* Result 1 purged envelope 0 and was matched; result 0 arrived afterwards.
C5_Witness ==
    /\ ~is_local_service
    /\ Attached
    /\ \E i, j \in DOMAIN arrivals :
          /\ i < j
          /\ arrivals[i].image_id \in Ids2(arrivals[i].pre)
          /\ arrivals[i].pre[1] < arrivals[i].image_id
          /\ arrivals[j].image_id = arrivals[i].pre[1]
    /\ purged # {}
    /\ published # <<>>

\* C6: a result whose id was never dispatched and exceeds every queued id,
\* arriving on a non-empty queue, purges the whole queue, publishes nothing
\* and lets the receiving detect call return normally.
C6_UnknownIdPurgesAll ==
    [][ArrivalStep =>
         LET R == Arrived.image_id
             c == Arrived.call
         IN (/\ frame_queue # <<>>
             /\ R >= frame_id
             /\ \A i \in DOMAIN frame_queue : frame_queue[i].id < R) =>
                  /\ frame_queue' = <<>>
                  /\ purged' = purged \cup {frame_queue[i] :
                                               i \in DOMAIN frame_queue}
                  /\ published' = published
                  /\ shared_frame' = shared_frame
                  /\ outcome'[c] = "return"
       ]_vars

TransportFaults == {"transport", "timeout"}

\* The step is the transport failure or timeout of call c, which has
\* enqueued its envelope and awaits the response.
FailureStep(c) ==
    /\ ~is_local_service
    /\ pc[c] = "await"
    /\ fault[c] = "none"
    /\ fault'[c] \in TransportFaults

\* The envelope of call c leaves the queue in this step.
EnvelopeLeaves(c) ==
    /\ reqId[c] \in Ids(frame_queue)
    /\ reqId[c] \notin Ids(frame_queue')

\* C7 as stated: a transport failure or timeout leaves the queue, the slot
\* and the counter as they were, and the envelope of the failed call leaves
\* the queue only in the reconciliation of a result with a higher id.
C7_RemovedOnlyByHigherId ==
    [][\A c \in Calls :
         /\ FailureStep(c) =>
               /\ frame_queue' = frame_queue
               /\ frame_id' = frame_id
               /\ published' = published
               /\ shared_frame' = shared_frame
         /\ (fault[c] \in TransportFaults /\ EnvelopeLeaves(c)) =>
               /\ ArrivalStep
               /\ Arrived.image_id > reqId[c]
       ]_vars

\* C7 amended: the envelope of the failed call leaves the queue only in the
\* reconciliation of a result whose id is higher than or equal to its own;
\* a result with an equal id is one delivered on another call, and it is
\* matched with the envelope instead of purging it.
C7_RemovedOnlyByLaterResult ==
    [][\A c \in Calls :
         /\ FailureStep(c) =>
               /\ frame_queue' = frame_queue
               /\ frame_id' = frame_id
               /\ published' = published
               /\ shared_frame' = shared_frame
         /\ (fault[c] \in TransportFaults /\ EnvelopeLeaves(c)) =>
               /\ ArrivalStep
               /\ Arrived.image_id >= reqId[c]
               /\ Arrived.call # c
               /\ Arrived.image_id = reqId[c] =>
                     /\ reqId[c] \notin {e.id : e \in purged'}
                     /\ Len(published') = Len(published) + 1
       ]_vars

\* A call failed after enqueueing, and its envelope was purged later by a
\* result with a higher id, while the envelope of another failed call is
\* still queued.
C7_Witness ==
    /\ ~is_local_service
    /\ \E c \in Calls :
          /\ fault[c] \in TransportFaults
          /\ reqId[c] \in PurgedIds
    /\ \E c \in Calls :
          /\ fault[c] \in TransportFaults
          /\ reqId[c] \in Ids(frame_queue)

\* C8: the synchronous path leaves the counter and the queue as they were
\* at construction.
C8_LocalLeavesCounterAndQueue ==
    is_local_service => (frame_id = 0 /\ frame_queue = <<>>)

\* C9: a call that met a transport, timeout or decode failure ends with an
\* exception, and a call ends with an exception only for its own failure or
\* its own reconciliation.
C9_FailureReachesCaller ==
    /\ \A c \in Calls : fault[c] # "none" => Raised(c)
    /\ \A c \in Calls :
          Raised(c) => \/ fault[c] # "none"
                       \/ \E k \in DOMAIN arrivals : arrivals[k].call = c

\* C10: a result that arrives on an empty queue is discarded: nothing is
\* published, the queue stays empty, the counter and the purge record are
\* unchanged and the call returns normally.
C10_EmptyQueueDiscards ==
    [][(ArrivalStep /\ frame_queue = <<>>) =>
          /\ frame_queue' = <<>>
          /\ published' = published
          /\ shared_frame' = shared_frame
          /\ frame_id' = frame_id
          /\ purged' = purged
          /\ outcome'[Arrived.call] = "return"
       ]_vars

\* Some result was reconciled against an empty queue, with and without an
\* image_id.
C10_Witness ==
    /\ ~is_local_service
    /\ \E k \in DOMAIN arrivals :
          arrivals[k].pre = <<>> /\ arrivals[k].image_id # NoId
    /\ \E k \in DOMAIN arrivals :
          arrivals[k].pre = <<>> /\ arrivals[k].image_id = NoId

\* C11: a result with id R that finds the front envelope with an id greater
\* than R is discarded: the queue, the counter, the slot, the publication
\* and purge records stay as they were and the call returns normally.
C11_StaleResultLeavesState ==
    [][(/\ ArrivalStep
        /\ frame_queue # <<>>
        /\ Arrived.image_id # NoId
        /\ Head(frame_queue).id > Arrived.image_id) =>
          /\ frame_queue' = frame_queue
          /\ frame_id' = frame_id
          /\ shared_frame' = shared_frame
          /\ published' = published
          /\ purged' = purged
          /\ outcome'[Arrived.call] = "return"
       ]_vars

\* A result arrived whose id was below the id at the front of the queue.
C11_Witness ==
    /\ ~is_local_service
    /\ \E k \in DOMAIN arrivals :
          /\ arrivals[k].pre # <<>>
          /\ arrivals[k].image_id # NoId
          /\ arrivals[k].pre[1] > arrivals[k].image_id
    /\ frame_queue # <<>>

\* C12: when the result id R equals the id of the envelope found at the
\* front, that envelope leaves the queue whether or not a SharedFrame is
\* attached; without one only the publication is skipped.
C12_MatchPopsWithoutSlot ==
    [][(ArrivalStep /\ Arrived.image_id \in Ids(frame_queue)) =>
          /\ frame_queue' = SelectSeq(frame_queue,
                                      LAMBDA e : e.id > Arrived.image_id)
          /\ ~Attached => published' = published
       ]_vars

\* C15: from the same queue and result id the reconciliation of the HTTP
\* client and that of the gRPC client end in the same queue, publish the
\* same pair or nothing, and give the same outcome.
C15_ClientsReconcileAlike ==
    ~is_local_service =>
        \A r \in ResultIds \ {NoId}, c \in Calls :
            LET res == [image_id |-> r, call |-> c]
            IN ReconcileHTTP(frame_queue, shared_frame, res)
                  = ReconcileGRPC(frame_queue, shared_frame, res)

\* C16: on the synchronous path every publication pairs a result with the
\* frame passed to the call that received it.
C16_LocalPairsOwnFrame ==
    is_local_service =>
        \A k \in DOMAIN published :
            published[k].frame = FrameOf(published[k].result.call)

\* C14: only id assignment and enqueue run under the lock.  The lock is
\* held by no call that awaits its response, so a call that holds it can
\* always assign its id, whatever sends are pending.
C14_OnlyEnqueueSerialized ==
    /\ \A c \in Calls : frame_id_lock = c => pc[c] = "critical"
    /\ \A c \in Calls : pc[c] = "critical" => ENABLED CriticalSection(c)
    /\ (frame_id_lock = 0 /\ Waiters # {}) =>
          \E c \in Waiters : ENABLED AcquireLock(c)

\* Two calls await their responses at once while a third, later call is in
\* its critical section.
C14_Witness ==
    /\ ~is_local_service
    /\ \E b, c, d \in Calls :
          /\ b < c /\ c < d
          /\ pc[b] = "await" /\ pc[c] = "await"
          /\ pc[d] = "critical"
          /\ reqId[c] = reqId[b] + 1

\* C17: the id placed in the request of an asynchronous call is the id of
\* the envelope that call enqueued, however far other calls have moved the
\* counter before the request is sent.
C17_RequestIdIsEnvelopeId ==
    ~is_local_service =>
        /\ \A k \in DOMAIN dispatched :
              reqId[dispatched[k].call] = dispatched[k].id
        /\ \A c \in Calls :
              pc[c] = "await" =>
                 \E k \in DOMAIN dispatched :
                    /\ dispatched[k].call = c
                    /\ dispatched[k].frame = FrameOf(c)
                    /\ dispatched[k].id = reqId[c]

\* A call still awaits with id 0 in its request while the counter has been
\* moved on by two later calls.
C17_Witness ==
    /\ ~is_local_service
    /\ \E c \in Calls :
          pc[c] = "await" /\ reqId[c] = 0 /\ frame_id >= 3

PublishedFrames == {published[k].frame : k \in DOMAIN published}

PurgedFrames == {e.frame : e \in purged}

QueuedFrames == {frame_queue[i].frame : i \in DOMAIN frame_queue}

\* C18: on the asynchronous path an envelope that has left the queue is
\* not in it again, it was either published or purged and not both, no
\* frame is published twice, and no arriving result is published twice.
C18_EnvelopeLeavesOnce ==
    ~is_local_service =>
        /\ PublishedFrames \cap PurgedFrames = {}
        /\ QueuedFrames \cap (PublishedFrames \cup PurgedFrames) = {}
        /\ \A i, j \in DOMAIN published :
              i # j => /\ published[i].frame # published[j].frame
                       /\ published[i].result.call # published[j].result.call
        /\ \A i, j \in DOMAIN frame_queue :
              i # j => frame_queue[i].frame # frame_queue[j].frame
        /\ Len(published) <= Len(arrivals)

\* The same result id arrived twice; one frame was published and another
\* purged.
C18_Witness ==
    /\ ~is_local_service
    /\ \E i, j \in DOMAIN arrivals :
          i < j /\ arrivals[i].image_id = arrivals[j].image_id
                /\ arrivals[i].image_id # NoId
    /\ published # <<>>
    /\ purged # {}

\* The k-th reconciled result took the branch "front id > R: discard the
\* result and keep the queue".
TookStaleBranch(k) ==
    /\ arrivals[k].pre # <<>>
    /\ arrivals[k].pre[1] > arrivals[k].image_id

C20_NoOlderEnvelopeLeft ==
    [][(ArrivalStep /\ frame_queue # <<>>) =>
          \A i \in DOMAIN frame_queue' :
              frame_queue'[i].id >= Arrived.image_id
       ]_vars

\* A result found two older envelopes queued, one of a call that had
\* failed, and none of them is queued any more.
C20_Witness ==
    /\ ~is_local_service
    /\ \E k \in DOMAIN arrivals :
          /\ Len(arrivals[k].pre) >= 2
          /\ arrivals[k].pre[2] < arrivals[k].image_id
          /\ \E c \in Calls : /\ fault[c] \in TransportFaults
                              /\ reqId[c] \in Ids2(arrivals[k].pre)
                              /\ reqId[c] < arrivals[k].image_id
                              /\ reqId[c] \notin Ids(frame_queue)

\* The queue a reconciliation started from, rebuilt from the ids recorded
\* at its start and the frames enqueued under them.
StartQueue(ids) ==
    [i \in DOMAIN ids |-> Envelope(ids[i], dispatched[ids[i] + 1].frame)]

\* C13: the reconciliation runs as one step with respect to every other
\* arrival and every enqueue.  While a call reconciles no other call moves,
\* nothing is enqueued and no other result arrives, and when it is over the
\* queue, the slot and the outcome are those of the whole reconciliation
\* applied to the queue it started from.
C13_ReconcileIsAtomic ==
    [][\A c \in Reconciling :
         /\ \A d \in Calls \ {c} : pc'[d] = pc[d]
         /\ frame_id' = frame_id
         /\ dispatched' = dispatched
         /\ arrivals' = arrivals
         /\ pc'[c] \in RcPositions \cup {"done"}
         /\ pc'[c] = "done" =>
               LET k == CHOOSE i \in DOMAIN arrivals : arrivals[i].call = c
                   whole == Reconcile(StartQueue(arrivals[k].pre),
                                      shared_frame, ResultOf(c))
               IN /\ frame_queue' = whole.queue
                  /\ shared_frame' = whole.sf
                  /\ outcome'[c] = whole.exc
       ]_vars

\* A reconciliation that popped an older envelope and published is over
\* while another call, dispatched before it began, still awaits.
C13_Witness ==
    /\ purged # {}
    /\ published # <<>>
    /\ \E k \in DOMAIN arrivals :
          /\ pc[arrivals[k].call] = "done"
          /\ Len(arrivals[k].pre) >= 2
          /\ arrivals[k].pre[1] < arrivals[k].image_id
    /\ \E c \in Calls : pc[c] = "await"

\* C21: on the asynchronous path the ids of the pairs published are
\* strictly increasing in the order of publication.
C21_PublishedIdsIncrease ==
    ~is_local_service =>
        \A i, j \in DOMAIN published :
            i < j => published[i].result.image_id
                        < published[j].result.image_id

\* Two pairs were published, with an id skipped between them, although a
\* result had arrived below the front of the queue.
C21_Witness ==
    /\ ~is_local_service
    /\ Len(published) >= 2
    /\ published[2].result.image_id > published[1].result.image_id + 1
    /\ \E k \in DOMAIN arrivals : TookStaleBranch(k)

\* C22: a result whose id has been dispatched, reconciled against a
\* non-empty queue, never empties the queue in the discard loop: the loop
\* stops at an envelope with an id not below R, so the reads of the queue
\* front succeed and the call returns normally (whatever ids arrived
\* before, in whatever order, with duplicates and losses).
C22_DispatchedIdNeverDrainsQueue ==
    [][(/\ ArrivalStep
        /\ frame_queue # <<>>
        /\ Arrived.image_id \in 0..(frame_id - 1)) =>
          /\ outcome'[Arrived.call] = "return"
          /\ \E i \in DOMAIN frame_queue :
                /\ frame_queue[i].id >= Arrived.image_id
                /\ purged' = purged \cup
                      {frame_queue[j] : j \in 1..(i - 1)}
                /\ \/ frame_queue' = SubSeq(frame_queue, i, Len(frame_queue))
                   \/ /\ frame_queue' =
                            SubSeq(frame_queue, i + 1, Len(frame_queue))
                      /\ Len(published') = Len(published) + 1
       ]_vars

\* The HTTP client reconciled a duplicated dispatched id against a
\* non-empty queue, after a purge and after a call was lost to a failure.
C22_Witness ==
    /\ ~is_local_service
    /\ client = "http"
    /\ \E i, j \in DOMAIN arrivals :
          /\ i < j
          /\ arrivals[i].image_id = arrivals[j].image_id
          /\ arrivals[j].image_id # NoId
          /\ arrivals[j].image_id \in Ids2(IdSeq(dispatched))
          /\ arrivals[j].pre # <<>>
    /\ purged # {}
    /\ \E c \in Calls : fault[c] \in TransportFaults
    /\ \A c \in Calls : outcome[c] # "IndexError"

\* The response to the highest id dispatched so far, arriving on the call
\* that sent it, has been reconciled.
HighestReconciled ==
    /\ frame_id >= 1
    /\ \E k \in DOMAIN arrivals :
          /\ arrivals[k].image_id = frame_id - 1
          /\ reqId[arrivals[k].call] = frame_id - 1

\* C23: with a SharedFrame attached, once the response to the highest
\* dispatched id has been reconciled the queue is empty, whatever happened
\* to the other responses, and an empty queue stays empty until the next
\* dispatch.  The queue is thus empty from the moment that response
\* arrives, if it does.
C23_HighestResponseFlushes ==
    /\ []((~is_local_service /\ Attached /\ HighestReconciled)
             => frame_queue = <<>>)
    /\ [][(~is_local_service /\ frame_queue = <<>> /\ frame_queue' # <<>>)
             => (/\ Len(dispatched') = Len(dispatched) + 1
                 /\ frame_id' = frame_id + 1)]_vars

\* Every call is made; the response to the highest id was reconciled after
\* one call failed and while another still awaits, and envelopes left
\* behind were purged by it.
C23_Witness ==
    /\ ~is_local_service
    /\ Attached
    /\ ncalls = MaxCalls
    /\ frame_id = MaxCalls
    /\ HighestReconciled
    /\ purged # {}
    /\ frame_queue = <<>>
    /\ \E c \in Calls : fault[c] \in TransportFaults
    /\ \E c \in Calls : pc[c] = "await"

====
